---- MODULE Spec2Model ----
(***************************************************************************)
(* A model of oeis_tools: the identifier/URL helpers of utils.py, the      *)
(* BFile class of bfile.py and the Sequence facade of sequence.py.         *)
(*                                                                         *)
(* Python strings are sequences of one-character strings; the control      *)
(* characters are written "LF" (line feed), "CR" (carriage return),        *)
(* "SP" (space) and "TAB".  None is the empty tuple and a present value v   *)
(* is the one-element tuple <<v>>, so that an optional list can be told     *)
(* from an empty list.  A call either returns a value or raises.           *)
(***************************************************************************)
EXTENDS Integers, Sequences, FiniteSets, TLC

VARIABLES
    arg,        \* the argument of a field parser called on its own (None
                \* when the client does no such call)
    oeis_id,    \* the identifier the client passes to the library
    pc,         \* where the client is: "start", "done" after a helper call,
                \* "raised" after a constructor that raised, "bfile"/"seq" with
                \* an object in hand, "bfile_ret"/"seq_ret" when a call on it
                \* (or its constructor) has just returned or raised
    ret,        \* outcome of the last library call
    bf,         \* the BFile object (None before construction)
    seq,        \* the Sequence object (None before construction)
    net,        \* the HTTP GET requests issued so far, in order
    meta,       \* the response the JSON request of the last call received
                \* (None: the call made no such request)
    resp,       \* the response the b-file request of the last call received
                \* (None: the call made no such request)
    plot        \* what the last library call drew on the axes it made

vars == <<arg, oeis_id, pc, ret, bf, seq, net, meta, resp, plot>>

----------------------------------------------------------------------------
(* Python values *)

None == << >>

Some(v) == <<v>>

IsNone(x) == x = << >>

Val(x) == x[1]

Return(v) == [exc |-> "ok", val |-> <<v>>]

Raise(e) == [exc |-> e, val |-> << >>]

----------------------------------------------------------------------------
(* Bounds of the inputs *)

MaxIdLen == 8

MaxIdFaults == 1

\* Characters an identifier is drawn from: the prefix letter, another
\* letter, a decimal digit and a line break.
IdChars == {"A", "B", "7", "LF"}

Ids == UNION { [1..n -> IdChars] : n \in 0..MaxIdLen }

\* The shape `A` + six digits, written without the regular expression:
\* position by position, what a well-formed identifier holds.
WellFormedAt(s, i) == IF i = 1 THEN s[i] = "A" ELSE s[i] = "7"

IdFaults(s) ==
    Cardinality({i \in 1..Len(s) : i <= 7 /\ ~WellFormedAt(s, i)})
    + (IF Len(s) < 7 THEN 7 - Len(s) ELSE Len(s) - 7)

\* Identifiers at most MaxIdFaults edits away from a well-formed one: the
\* inputs of the object-level operations.
NearIds == {s \in Ids : IdFaults(s) <= MaxIdFaults}

Fmts == {"json", "text", "bfile", "graph", "None", "unknown"}

----------------------------------------------------------------------------
(* utils.py *)

OEIS_URL == <<"h","t","t","p","s",":","/","/","o","e","i","s",".","o","r","g">>

\* \d of a str pattern: a decimal digit (of the characters modelled).
IsDigit(c) == c \in {"0", "1", "2", "3", "4", "5", "6", "7", "8", "9"}

\* `$` without re.MULTILINE: the end of the string, or just before a line
\* break that is the last character of the string.  pos is the position of
\* the next unread character.
MatchDollar(s, pos) ==
    \/ pos = Len(s) + 1
    \/ pos = Len(s) /\ s[pos] = "LF"

\* bool(re.match(r'^A\d{6}$', oeis_id))
check_id(s) ==
    /\ Len(s) >= 7
    /\ s[1] = "A"
    /\ \A i \in 2..7 : IsDigit(s[i])
    /\ MatchDollar(s, 8)

oeis_bfile(s) ==
    IF ~check_id(s)
    THEN Raise("ValueError")
    ELSE LET digits == SubSeq(s, 2, Len(s))
         IN  Return(<<"b">> \o digits \o <<".", "t", "x", "t">>)

\* oeis_url that only validates where it needs the b-file name.
oeis_url_lazy(s, fmt) ==
    IF fmt = "bfile"
    THEN (IF oeis_bfile(s).exc # "ok" THEN oeis_bfile(s)
          ELSE Return(OEIS_URL \o <<"/">> \o s \o <<"/">> \o Val(oeis_bfile(s).val)))
    ELSE IF fmt = "json"
    THEN Return(OEIS_URL \o <<"/","s","e","a","r","c","h","?","q","=","i","d",":">>
                         \o s \o <<"&","f","m","t","=","j","s","o","n">>)
    ELSE Return(OEIS_URL \o <<"/">> \o s)

\* oeis_url with formats[fmt] in place of formats.get(fmt, formats[None]).
oeis_url_no_fallback(s, fmt) ==
    IF oeis_bfile(s).exc # "ok"
    THEN oeis_bfile(s)
    ELSE IF fmt = "json"
    THEN Return(OEIS_URL \o <<"/","s","e","a","r","c","h","?","q","=","i","d",":">>
                         \o s \o <<"&","f","m","t","=","j","s","o","n">>)
    ELSE IF fmt = "text"
    THEN Return(OEIS_URL \o <<"/","s","e","a","r","c","h","?","q","=","i","d",":">>
                         \o s \o <<"&","f","m","t","=","t","e","x","t">>)
    ELSE IF fmt = "bfile"
    THEN Return(OEIS_URL \o <<"/">> \o s \o <<"/">> \o Val(oeis_bfile(s).val))
    ELSE IF fmt = "graph"
    THEN Return(OEIS_URL \o <<"/">> \o s \o <<"/","g","r","a","p","h","?","p","n","g","=","1">>)
    ELSE IF fmt = "None"
    THEN Return(OEIS_URL \o <<"/">> \o s)
    ELSE Raise("KeyError")

\* The dict of every format is built before the lookup, so the b-file
\* name, and with it the validation, is computed whatever fmt is.  The
\* absent format is the key "None".
oeis_url_formats(s) ==
    [json  |-> OEIS_URL \o <<"/","s","e","a","r","c","h","?","q","=","i","d",":">>
                        \o s \o <<"&","f","m","t","=","j","s","o","n">>,
     text  |-> OEIS_URL \o <<"/","s","e","a","r","c","h","?","q","=","i","d",":">>
                        \o s \o <<"&","f","m","t","=","t","e","x","t">>,
     bfile |-> OEIS_URL \o <<"/">> \o s \o <<"/">> \o Val(oeis_bfile(s).val),
     graph |-> OEIS_URL \o <<"/">> \o s \o <<"/","g","r","a","p","h","?","p","n","g","=","1">>,
     None  |-> OEIS_URL \o <<"/">> \o s]

oeis_url(s, fmt) ==
    IF oeis_bfile(s).exc # "ok"
    THEN oeis_bfile(s)
    ELSE LET formats == oeis_url_formats(s)
         IN  Return(IF fmt \in DOMAIN formats THEN formats[fmt] ELSE formats["None"])

----------------------------------------------------------------------------
(* __init__.py: the oeis_url of the package root.  Its check_id and
   oeis_bfile are copies of those of utils.py. *)

root_oeis_url(s, fmt) ==
    IF fmt = "json"
    THEN Return(OEIS_URL \o <<"/","s","e","a","r","c","h","?","q","=","i","d",":">>
                         \o s \o <<"&","f","m","t","=","j","s","o","n">>)
    ELSE IF fmt = "text"
    THEN Return(OEIS_URL \o <<"/","s","e","a","r","c","h","?","q","=","i","d",":">>
                         \o s \o <<"&","f","m","t","=","t","e","x","t">>)
    ELSE IF fmt = "bfile"
    THEN (IF oeis_bfile(s).exc # "ok" THEN oeis_bfile(s)
          ELSE Return(OEIS_URL \o <<"/">> \o s \o <<"/">> \o Val(oeis_bfile(s).val)))
    ELSE Return(OEIS_URL \o <<"/">> \o s)

----------------------------------------------------------------------------
(* The text of a b-file, as the server may send it *)

MaxLines == 2

MaxRequests == 2

MaxN == 2

\* The lines a b-file body is made of.  Every line is sent with a line feed
\* after it, so the line that ends in CR is sent with a CR LF line break.
LineMenu == {
    <<"SP">>,                                               \* blank
    <<"SP", "#", "3", "SP", "4">>,                          \* comment, indented
    <<"0", "SP", "5">>,                                     \* index value
    <<"TAB", "-", "2", "SP", "SP", "+", "1", "0", "SP", "x", "CR">>,  \* signs, runs of blanks, extra token
    <<"3">>,                                                \* one token only
    <<"x", "SP", "4">>,                                     \* index is no integer
    <<"4", "SP", "-">>                                      \* value is no integer
}

RECURSIVE JoinLines(_)
JoinLines(ls) ==
    IF ls = << >> THEN << >> ELSE Head(ls) \o <<"LF">> \o JoinLines(Tail(ls))

Bodies == { JoinLines(ls) : ls \in UNION { [1..k -> LineMenu] : k \in 0..MaxLines } }

\* What a GET of the b-file URL may do: requests.get raises a
\* RequestException ("error"), raise_for_status raises HTTPError
\* ("status"), or the body arrives ("ok").
BFileResponses ==
    { [kind |-> "error", text |-> << >>], [kind |-> "status", text |-> << >>] }
    \cup { [kind |-> "ok", text |-> b] : b \in Bodies }

----------------------------------------------------------------------------
(* str methods and int() *)

\* str.splitlines: LF, CR and CR LF end a line; no empty last line.
RECURSIVE splitlines_from(_, _, _)
splitlines_from(text, i, cur) ==
    IF i > Len(text)
    THEN IF cur = << >> THEN << >> ELSE <<cur>>
    ELSE IF text[i] = "LF"
         THEN <<cur>> \o splitlines_from(text, i + 1, << >>)
    ELSE IF text[i] = "CR"
         THEN <<cur>> \o splitlines_from(text,
                            IF i + 1 <= Len(text) /\ text[i + 1] = "LF" THEN i + 2 ELSE i + 1,
                            << >>)
    ELSE splitlines_from(text, i + 1, Append(cur, text[i]))

splitlines(text) == splitlines_from(text, 1, << >>)

IsSpace(c) == c \in {"SP", "TAB", "LF", "CR"}

\* str.strip()
strip(line) ==
    LET kept == {i \in 1..Len(line) : ~IsSpace(line[i])}
    IN  IF kept = {} THEN << >>
        ELSE SubSeq(line, CHOOSE i \in kept : \A j \in kept : i <= j,
                          CHOOSE i \in kept : \A j \in kept : i >= j)

\* str.split() without a separator: the maximal runs of non-blanks.
RECURSIVE split_from(_, _, _)
split_from(line, i, cur) ==
    IF i > Len(line)
    THEN IF cur = << >> THEN << >> ELSE <<cur>>
    ELSE IF IsSpace(line[i])
         THEN (IF cur = << >> THEN << >> ELSE <<cur>>) \o split_from(line, i + 1, << >>)
    ELSE split_from(line, i + 1, Append(cur, line[i]))

split(line) == split_from(line, 1, << >>)

DigitVal(c) ==
    CASE c = "0" -> 0 [] c = "1" -> 1 [] c = "2" -> 2 [] c = "3" -> 3 [] c = "4" -> 4
      [] c = "5" -> 5 [] c = "6" -> 6 [] c = "7" -> 7 [] c = "8" -> 8 [] c = "9" -> 9

RECURSIVE int_digits(_, _)
int_digits(ds, acc) ==
    IF ds = << >> THEN Return(acc)
    ELSE IF ~IsDigit(Head(ds)) THEN Raise("ValueError")
    ELSE int_digits(Tail(ds), 10 * acc + DigitVal(Head(ds)))

\* int(token): an optional sign, then one or more digits.
int(tok) ==
    LET signed == tok # << >> /\ Head(tok) \in {"+", "-"}
        ds     == IF signed THEN Tail(tok) ELSE tok
        mag    == int_digits(ds, 0)
    IN  IF ds = << >> \/ mag.exc # "ok" THEN Raise("ValueError")
        ELSE IF signed /\ Head(tok) = "-" THEN Return(0 - Val(mag.val))
        ELSE mag

----------------------------------------------------------------------------
(* bfile.py *)

\* parse_line with the two columns taken the wrong way round.
parse_line_swapped(raw) ==
    LET line == strip(raw)
        toks == split(line)
    IN  IF line = << >> \/ Head(line) = "#" THEN [kind |-> "skip", index |-> 0, value |-> 0]
        ELSE IF Len(toks) < 2 \/ int(toks[1]).exc # "ok" \/ int(toks[2]).exc # "ok"
             THEN [kind |-> "fail", index |-> 0, value |-> 0]
        ELSE [kind |-> "pair", index |-> Val(int(toks[2]).val), value |-> Val(int(toks[1]).val)]

\* The body of the for loop of fetch_bfile_data on one line: "skip" for a
\* blank or comment line, "fail" where the except clause is reached, "pair"
\* with the parsed index and value otherwise.
parse_line(raw) ==
    LET line == strip(raw)
        toks == split(line)
    IN  IF line = << >> \/ Head(line) = "#" THEN [kind |-> "skip", index |-> 0, value |-> 0]
        ELSE IF Len(toks) < 2 \/ int(toks[1]).exc # "ok" \/ int(toks[2]).exc # "ok"
             THEN [kind |-> "fail", index |-> 0, value |-> 0]
        ELSE [kind |-> "pair", index |-> Val(int(toks[1]).val), value |-> Val(int(toks[2]).val)]

\* parse_loop that stops at a malformed line and keeps what it has.
RECURSIVE parse_loop_partial(_, _, _, _)
parse_loop_partial(lines, i, indices, data) ==
    IF i > Len(lines)
    THEN [indices |-> Some(indices), data |-> Some(data)]
    ELSE LET p == parse_line(lines[i])
         IN  IF p.kind = "skip" THEN parse_loop_partial(lines, i + 1, indices, data)
             ELSE IF p.kind = "fail" THEN [indices |-> Some(indices), data |-> Some(data)]
             ELSE parse_loop_partial(lines, i + 1, Append(indices, p.index),
                                     Append(data, p.value))

\* The for loop over the lines from line i on, with the lists built so far.
\* The result is the pair (self.indices, return value).
RECURSIVE parse_loop(_, _, _, _)
parse_loop(lines, i, indices, data) ==
    IF i > Len(lines)
    THEN [indices |-> Some(indices), data |-> Some(data)]
    ELSE LET p == parse_line(lines[i])
         IN  IF p.kind = "skip" THEN parse_loop(lines, i + 1, indices, data)
             ELSE IF p.kind = "fail" THEN [indices |-> None, data |-> None]
             ELSE parse_loop(lines, i + 1, Append(indices, p.index), Append(data, p.value))

\* fetch_bfile_data without the except clause around the request.
fetch_bfile_data_uncaught(self, r) ==
    IF r.kind = "error" THEN [exc |-> "RequestException", self |-> self, val |-> None]
    ELSE IF r.kind = "status" THEN [exc |-> "HTTPError", self |-> self, val |-> None]
    ELSE LET parsed == parse_loop(splitlines(r.text), 1, << >>, << >>)
         IN  [exc |-> "ok", self |-> [self EXCEPT !.indices = parsed.indices],
              val |-> parsed.data]

\* BFile.fetch_bfile_data on the object self when the GET receives r: the
\* exception raised (none is: RequestException is caught, and so are the
\* ValueError and IndexError of the loop), the object afterwards and the
\* value returned.  Only self.indices is assigned; self.data is left to
\* the caller.
fetch_bfile_data(self, r) ==
    IF r.kind # "ok"
    THEN [exc |-> "ok", self |-> self, val |-> None]
    ELSE LET parsed == parse_loop(splitlines(r.text), 1, << >>, << >>)
         IN  [exc |-> "ok", self |-> [self EXCEPT !.indices = parsed.indices],
              val |-> parsed.data]

\* BFile.__init__ that leaves the download for later.
BFile_init_lazy(id, r) ==
    IF oeis_bfile(id).exc # "ok"
    THEN [exc |-> oeis_bfile(id).exc, val |-> None, gets |-> << >>]
    ELSE [exc |-> "ok",
          val |-> Some([oeis_id  |-> id,
                        filename |-> Val(oeis_bfile(id).val),
                        url      |-> Val(oeis_url(id, "bfile").val),
                        indices  |-> None,
                        data     |-> None]),
          gets |-> << >>]

\* BFile.__init__: the exception raised (that of oeis_bfile), the new
\* object and the requests issued.
BFile_init(id, r) ==
    IF oeis_bfile(id).exc # "ok"
    THEN [exc |-> oeis_bfile(id).exc, val |-> None, gets |-> << >>]
    ELSE IF oeis_url(id, "bfile").exc # "ok"
    THEN [exc |-> oeis_url(id, "bfile").exc, val |-> None, gets |-> << >>]
    ELSE LET self0 == [oeis_id  |-> id,
                       filename |-> Val(oeis_bfile(id).val),
                       url      |-> Val(oeis_url(id, "bfile").val),
                       indices  |-> None,
                       data     |-> None]
             f == fetch_bfile_data(self0, r)
         IN  IF f.exc # "ok"
             THEN [exc |-> f.exc, val |-> None, gets |-> <<self0.url>>]
             ELSE [exc |-> "ok", val |-> Some([f.self EXCEPT !.data = f.val]),
                   gets |-> <<self0.url>>]

get_filename(self) == self.filename

get_url(self) == self.url

get_bfile_data(self) == self.data

get_bfile_indices(self) == self.indices

\* The arguments n of plot_data: None, a str, or an int from -1 to MaxN.
NArgs ==
    { [type |-> "NoneType", v |-> 0], [type |-> "str", v |-> 2] }
    \cup { [type |-> "int", v |-> k] : k \in (0 - 1)..MaxN }

abs(v) == IF v < 0 THEN 0 - v ELSE v

\* sys.float_info.max is about 1.8e308, a magnitude the modelled listings
\* cannot hold.  plot_data only compares magnitudes with it, so the model
\* scales it down to FloatMax: the listings then have values on both sides.
FloatMax == 8

\* abs(value) > sys.float_info.max
exceeds_float_max(value) == abs(value) > FloatMax

\* values[:n] that keeps one element too many.
prefix_one_more(values, n) == SubSeq(values, 1, IF n + 1 < Len(values) THEN n + 1 ELSE Len(values))

\* values[:n] for n >= 0
prefix(values, n) == SubSeq(values, 1, IF n < Len(values) THEN n ELSE Len(values))

\* use_bfile_indices without the comparison of the lengths.
use_bfile_indices_unchecked(indices, values) ==
    /\ ~IsNone(indices)
    /\ Val(indices) # << >>

\* bool(indices) and len(indices) == len(values)
use_bfile_indices(indices, values) ==
    /\ ~IsNone(indices)
    /\ Val(indices) # << >>
    /\ Len(Val(indices)) = Len(values)

\* use_log_magnitude that looks at the first plotted value only.
use_log_magnitude_first(plot_values) ==
    plot_values # << >> /\ exceeds_float_max(plot_values[1])

\* any(abs(value) > sys.float_info.max for value in plot_values)
use_log_magnitude(plot_values) ==
    \E i \in 1..Len(plot_values) : exceeds_float_max(plot_values[i])

\* The y value of the log-magnitude mode: 0.0 for 0, else the logarithm of
\* the magnitude, negated for a negative value.  The logarithm is kept as
\* the magnitude it is taken of.
log_magnitude(value) ==
    [sign |-> IF value < 0 THEN 0 - 1 ELSE IF value = 0 THEN 0 ELSE 1,
     log10_of |-> abs(value)]

\* plot_data_draw that chooses the mode by the whole of values.
plot_data_draw_whole(self, values, n) ==
    LET indices     == get_bfile_indices(self)
        plot_values == IF n.type = "NoneType" THEN values ELSE prefix(values, n.v)
        by_index    == use_bfile_indices(indices, values)
        x_values    == IF by_index
                       THEN (IF n.type = "NoneType" THEN Val(indices) ELSE prefix(Val(indices), n.v))
                       ELSE [i \in 1..Len(plot_values) |-> i - 1]
        log_mode    == use_log_magnitude(values)
    IN  [x |-> x_values,
         y |-> IF log_mode
               THEN [i \in 1..Len(plot_values) |-> log_magnitude(plot_values[i])]
               ELSE plot_values,
         title  |-> IF log_mode
                    THEN self.oeis_id \o <<" b-file data (log10 magnitude)">>
                    ELSE self.oeis_id \o <<" b-file data">>,
         ylabel |-> IF log_mode THEN "sign(value) * log10(|value|)" ELSE "Value",
         xlabel |-> IF by_index THEN "n" ELSE "Index"]

\* plot_data from the creation of the axes on: what ax.plot, set_title,
\* set_ylabel and set_xlabel receive.  values is the non-empty data, n a
\* validated argument.
plot_data_draw(self, values, n) ==
    LET indices     == get_bfile_indices(self)
        plot_values == IF n.type = "NoneType" THEN values ELSE prefix(values, n.v)
        by_index    == use_bfile_indices(indices, values)
        x_values    == IF by_index
                       THEN (IF n.type = "NoneType" THEN Val(indices) ELSE prefix(Val(indices), n.v))
                       ELSE [i \in 1..Len(plot_values) |-> i - 1]
        log_mode    == use_log_magnitude(plot_values)
    IN  [x |-> x_values,
         y |-> IF log_mode
               THEN [i \in 1..Len(plot_values) |-> log_magnitude(plot_values[i])]
               ELSE plot_values,
         title  |-> IF log_mode
                    THEN self.oeis_id \o <<" b-file data (log10 magnitude)">>
                    ELSE self.oeis_id \o <<" b-file data">>,
         ylabel |-> IF log_mode THEN "sign(value) * log10(|value|)" ELSE "Value",
         xlabel |-> IF by_index THEN "n" ELSE "Index"]

\* plot_data that imports matplotlib before it looks at n.
plot_data_import_first(self, n, mpl) ==
    LET values == get_bfile_data(self)
    IN
    IF IsNone(values) \/ Val(values) = << >>
    THEN [exc |-> "ValueError", msg |-> "No b-file data available to plot.", plot |-> None]
    ELSE IF ~mpl
    THEN [exc |-> "ImportError", msg |-> "matplotlib is required for plotting.", plot |-> None]
    ELSE IF n.type # "NoneType" /\ n.type # "int"
    THEN [exc |-> "TypeError", msg |-> "n must be an integer or None.", plot |-> None]
    ELSE IF n.type = "int" /\ n.v < 0
    THEN [exc |-> "ValueError", msg |-> "n must be non-negative.", plot |-> None]
    ELSE [exc |-> "ok", msg |-> "", plot |-> Some(plot_data_draw(self, Val(values), n))]

\* plot_data that looks at n before it looks at the data.
plot_data_n_first(self, n, mpl) ==
    LET values == get_bfile_data(self)
    IN
    IF n.type # "NoneType" /\ n.type # "int"
    THEN [exc |-> "TypeError", msg |-> "n must be an integer or None.", plot |-> None]
    ELSE IF n.type = "int" /\ n.v < 0
    THEN [exc |-> "ValueError", msg |-> "n must be non-negative.", plot |-> None]
    ELSE IF IsNone(values) \/ Val(values) = << >>
    THEN [exc |-> "ValueError", msg |-> "No b-file data available to plot.", plot |-> None]
    ELSE IF ~mpl
    THEN [exc |-> "ImportError", msg |-> "matplotlib is required for plotting.", plot |-> None]
    ELSE [exc |-> "ok", msg |-> "", plot |-> Some(plot_data_draw(self, Val(values), n))]

\* BFile.plot_data(n) with the default show, ax, return_ax and no
\* plot_kwargs; mpl tells whether matplotlib can be imported.  The result
\* is the outcome of the call and what was drawn (None when nothing was).
plot_data(self, n, mpl) ==
    LET values == get_bfile_data(self)
    IN
    IF IsNone(values) \/ Val(values) = << >>
    THEN [exc |-> "ValueError", msg |-> "No b-file data available to plot.", plot |-> None]
    ELSE IF n.type # "NoneType" /\ n.type # "int"
    THEN [exc |-> "TypeError", msg |-> "n must be an integer or None.", plot |-> None]
    ELSE IF n.type = "int" /\ n.v < 0
    THEN [exc |-> "ValueError", msg |-> "n must be non-negative.", plot |-> None]
    ELSE IF ~mpl
    THEN [exc |-> "ImportError", msg |-> "matplotlib is required for plotting.", plot |-> None]
    ELSE [exc |-> "ok", msg |-> "", plot |-> Some(plot_data_draw(self, Val(values), n))]

----------------------------------------------------------------------------
(* bfile.py: the log-magnitude transform on integers of any size.  An int
   is a record [neg, bits]: its sign and the bits of its magnitude, most
   significant first, without leading zeros (zero has no bit). *)

\* The bits of the significand of a float.
MantissaBits == 53

\* sys.float_info.max: (2^53 - 1) * 2^971
float_info_max == [i \in 1..1024 |-> IF i <= MantissaBits THEN 1 ELSE 0]

\* a <= b on magnitudes: an int is compared with a float by value.
int_le(a, b) ==
    \/ Len(a) < Len(b)
    \/ /\ Len(a) = Len(b)
       /\ \/ a = b
          \/ \E i \in 1..Len(a) :
                /\ a[i] < b[i]
                /\ \A j \in 1..(i - 1) : a[j] = b[j]

\* absolute.bit_length()
bit_length(absolute) == Len(absolute)

\* absolute >> shift
rshift(absolute, shift) ==
    SubSeq(absolute, 1, IF shift < Len(absolute) THEN Len(absolute) - shift ELSE 0)

\* safe_log10_abs_int that keeps one bit too few.
safe_log10_abs_int_short(value) ==
    LET absolute == value.bits
        shift    == IF bit_length(absolute) - (MantissaBits - 1) > 0
                    THEN bit_length(absolute) - (MantissaBits - 1) ELSE 0
    IN  IF int_le(absolute, float_info_max)
        THEN [log10_of |-> absolute, shift |-> 0]
        ELSE [log10_of |-> rshift(absolute, shift), shift |-> shift]

\* safe_log10_abs_int(value): math.log10(log10_of) + shift * log10_2, kept
\* as the int that math.log10 is given and the shift.
safe_log10_abs_int(value) ==
    LET absolute == value.bits
        shift    == IF bit_length(absolute) - MantissaBits > 0
                    THEN bit_length(absolute) - MantissaBits ELSE 0
    IN  IF int_le(absolute, float_info_max)
        THEN [log10_of |-> absolute, shift |-> 0]
        ELSE [log10_of |-> rshift(absolute, shift), shift |-> shift]

\* One element of y_values: 0.0 for 0, else the logarithm of the magnitude,
\* negated for a negative value.
y_value(value) ==
    IF value.bits = << >> THEN [sign |-> 0, log10_of |-> << >>, shift |-> 0]
    ELSE [sign     |-> IF value.neg THEN 0 - 1 ELSE 1,
          log10_of |-> safe_log10_abs_int(value).log10_of,
          shift    |-> safe_log10_abs_int(value).shift]

\* The integers the transform is applied to: small ones, and magnitudes of
\* 60 bits and around the 1024 bits of sys.float_info.max, whose leading
\* MantissaBits bits and whose remaining bits are each a run of one bit
\* ending in two free bits.
MaxExtraBits == 2

BitLengths == {60, 1023} \cup {1024 + k : k \in 0..MaxExtraBits}

SmallMagnitudes == { << >>, <<1>>, <<1, 0, 1>> }

LargeMagnitudes ==
    { [i \in 1..len |->
          IF i = 1 THEN 1
          ELSE IF i < MantissaBits - 1 THEN a
          ELSE IF i <= MantissaBits THEN t[i - (MantissaBits - 2)]
          ELSE IF i < len - 1 THEN b
          ELSE l[i - (len - 2)]] :
      len \in BitLengths, a \in {0, 1}, t \in [1..2 -> {0, 1}],
      b \in {0, 1}, l \in [1..2 -> {0, 1}] }

IntValues ==
    { [neg |-> s, bits |-> m] :
      s \in BOOLEAN, m \in SmallMagnitudes \cup LargeMagnitudes }
    \ { [neg |-> TRUE, bits |-> << >>] }

----------------------------------------------------------------------------
(* utils.py: the keyword descriptions *)

\* The keyword tags of the OEIS wiki and their descriptions.
OEIS_KEYWORD_DESCRIPTIONS ==
    <<"b","a","s","e">> :>
        "Sequence is dependent on the numeral base used." @@
    <<"b","r","e","f">> :>
        "Sequence is too short to do any analysis with." @@
    <<"c","o","f","r">> :>
        "A continued fraction expansion of a number." @@
    <<"c","o","n","s">> :>
        "A decimal expansion of a number (occasionally another base)." @@
    <<"c","o","r","e">> :>
        "A fundamental sequence." @@
    <<"d","e","a","d">> :>
        "An erroneous or duplicated sequence kept with pointers to correct versions." @@
    <<"d","u","m","b">> :>
        "An unimportant sequence." @@
    <<"e","a","s","y">> :>
        "It is easy to produce terms of this sequence." @@
    <<"e","i","g","e","n">> :>
        "An eigensequence: a fixed sequence under some transformation." @@
    <<"f","i","n","i">> :>
        "A confirmed finite sequence." @@
    <<"f","r","a","c">> :>
        "Numerators or denominators of a sequence of rational numbers." @@
    <<"f","u","l","l">> :>
        "The full sequence is given (implies the sequence is finite)." @@
    <<"h","a","r","d">> :>
        "Next term is not known and may be hard to find; more terms are requested." @@
    <<"h","e","a","r">> :>
        "Graph audio is considered particularly interesting or beautiful." @@
    <<"l","e","s","s">> :>
        "Less interesting sequence and less likely to be the intended target." @@
    <<"l","o","o","k">> :>
        "Graph visual is considered particularly interesting or beautiful." @@
    <<"m","o","r","e">> :>
        "More terms are needed; extension requested." @@
    <<"m","u","l","t">> :>
        "Multiplicative sequence: a(m*n)=a(m)*a(n) for gcd(m,n)=1." @@
    <<"n","i","c","e">> :>
        "An exceptionally nice sequence." @@
    <<"n","o","n","n">> :>
        "Displayed terms are nonnegative (later terms may still become negative)." @@
    <<"o","b","s","c">> :>
        "Obscure sequence; better description needed." @@
    <<"s","i","g","n">> :>
        "Sequence contains negative numbers." @@
    <<"t","a","b","f">> :>
        "Irregular array read row by row." @@
    <<"t","a","b","l">> :>
        "Regular array read row by row." @@
    <<"u","n","k","n">> :>
        "Definition or context is not known." @@
    <<"w","a","l","k">> :>
        "Counts walks or self-avoiding paths." @@
    <<"w","o","r","d">> :>
        "Depends on words in some language." @@
    <<"a","l","l","o","c","a","t","e","d">> :>
        "A-number allocated for a contributor; entry not ready to go live." @@
    <<"c","h","a","n","g","e","d">> :>
        "Older entry modified within the last two weeks." @@
    <<"n","e","w">> :>
        "New entry, added or modified within roughly the last two weeks." @@
    <<"p","r","o","b","a","t","i","o","n">> :>
        "Included provisionally and may be deleted at editor discretion." @@
    <<"r","e","c","y","c","l","e","d">> :>
        "A proposed entry was rejected and the A-number is reused." @@
    <<"u","n","e","d">> :>
        "Not edited; entry still needs editorial review."

\* The lower-case letter of each upper-case letter.
LowerOf ==
    "A" :> "a" @@ "B" :> "b" @@ "C" :> "c" @@ "D" :> "d" @@ "E" :> "e" @@ "F" :> "f" @@
    "G" :> "g" @@ "H" :> "h" @@ "I" :> "i" @@ "J" :> "j" @@ "K" :> "k" @@ "L" :> "l" @@
    "M" :> "m" @@ "N" :> "n" @@ "O" :> "o" @@ "P" :> "p" @@ "Q" :> "q" @@ "R" :> "r" @@
    "S" :> "s" @@ "T" :> "t" @@ "U" :> "u" @@ "V" :> "v" @@ "W" :> "w" @@ "X" :> "x" @@
    "Y" :> "y" @@ "Z" :> "z"

\* str.lower(), character by character.
lower(s) == [i \in 1..Len(s) |-> IF s[i] \in DOMAIN LowerOf THEN LowerOf[s[i]] ELSE s[i]]

\* The arguments keyword_tag: None or a str.
KeywordTags ==
    { [type |-> "NoneType", v |-> << >>] }
    \cup { [type |-> "str", v |-> t] : t \in {
             << >>,
             <<"SP", "TAB">>,
             <<"n","o","n","n">>,
             <<"SP","SP","E","A","S","Y","SP">>,
             <<"N","e","w","LF">>,
             <<"m","i","s","s","i","n","g">>,
             <<"n","o","SP","n","n">>,
             <<"e","a","s","y",",">> } }

\* oeis_keyword_description that looks the tag up as it was passed.
oeis_keyword_description_raw(keyword_tag) ==
    IF keyword_tag.type = "NoneType" THEN None
    ELSE IF keyword_tag.v = << >> THEN None
    ELSE IF keyword_tag.v \in DOMAIN OEIS_KEYWORD_DESCRIPTIONS
         THEN Some(OEIS_KEYWORD_DESCRIPTIONS[keyword_tag.v])
         ELSE None

\* oeis_keyword_description: the description (a str) or None.
oeis_keyword_description(keyword_tag) ==
    IF keyword_tag.type = "NoneType" THEN None
    ELSE LET tag == lower(strip(keyword_tag.v))
         IN  IF tag = << >> THEN None
             ELSE IF tag \in DOMAIN OEIS_KEYWORD_DESCRIPTIONS
                  THEN Some(OEIS_KEYWORD_DESCRIPTIONS[tag])
                  ELSE None

----------------------------------------------------------------------------
(* sequence.py *)

\* The records the JSON endpoint may hold.  A field is absent (None) or
\* present with the type JSON gave it: "str", "list" (of str) or "other".
\* time is absent, an ISO timestamp, or text datetime.fromisoformat rejects.
Payloads == {
    [xref |-> None, data |-> None, time |-> None],
    [xref |-> Some([type |-> "list",
                    v |-> << <<"C","f",".","SP","A","0","0","0","2","0","4">>,
                             <<"A","0","0","0","0","4","5","9","SP","A","0","0","0","2","0","4">> >>]),
     data |-> Some([type |-> "str", v |-> <<"1",",","-","2",",","+","-","3","0">>]),
     time |-> Some("iso")],
    [xref |-> Some([type |-> "str", v |-> <<"A","1","2","3","4","5","A","7","7","7","7","7","7">>]),
     data |-> Some([type |-> "list", v |-> << <<"4">>, <<"x">>, <<"-","5">> >>]),
     time |-> None],
    [xref |-> None, data |-> Some([type |-> "other", v |-> << >>]), time |-> Some("bad")]
}

\* What the GET of the JSON URL may do: requests.get raises ("error"),
\* raise_for_status raises ("status"), the JSON array is empty ("empty"),
\* or its first element is a record ("ok").
MetaResponses ==
    { [kind |-> k, json |-> None] : k \in {"error", "status", "empty"} }
    \cup { [kind |-> "ok", json |-> Some(p)] : p \in Payloads }

\* '\n'.join(parts)
RECURSIVE join_lf(_)
join_lf(parts) ==
    IF parts = << >> THEN << >>
    ELSE IF Len(parts) = 1 THEN Head(parts)
    ELSE Head(parts) \o <<"LF">> \o join_lf(Tail(parts))

\* '\n'.join(raw) if isinstance(raw, list) else raw, with json.get(key, [])
text_group(field) ==
    IF IsNone(field) THEN << >>
    ELSE IF Val(field).type = "list" THEN join_lf(Val(field).v)
    ELSE Val(field).v

\* metadata_fetch without the call of raise_for_status.
metadata_fetch_unchecked(m) ==
    IF m.kind = "error" THEN "RequestException" ELSE "ok"

\* requests.get(json_url) and response.raise_for_status(): the exception
\* that leaves the constructor, "ok" when there is none.
metadata_fetch(m) ==
    IF m.kind = "error" THEN "RequestException"
    ELSE IF m.kind = "status" THEN "HTTPError"
    ELSE "ok"

\* Sequence.__init__ from the JSON request on, for a valid id.
Sequence_build(id, m, r) ==
    LET json_url == Val(oeis_url(id, "json").val)
        failed(e) == [exc |-> e, self |-> None, bfile |-> None, gets |-> <<json_url>>]
    IN
    IF metadata_fetch(m) # "ok" THEN failed(metadata_fetch(m))
    ELSE IF IsNone(m.json) THEN failed("IndexError")
    ELSE IF Val(m.json).time = Some("bad") THEN failed("ValueError")
    ELSE
    LET json == Val(m.json)
        b    == BFile_init(id, r)
    IN  IF b.exc # "ok"
        THEN [exc |-> b.exc, self |-> None, bfile |-> None, gets |-> <<json_url>> \o b.gets]
        ELSE [exc   |-> "ok",
              self  |-> Some([id   |-> id,
                              data |-> IF IsNone(json.data) THEN [type |-> "str", v |-> << >>]
                                       ELSE Val(json.data),
                              xref |-> text_group(json.xref),
                              time |-> json.time]),
              bfile |-> b.val,
              gets  |-> <<json_url>> \o b.gets]

\* Sequence.__init__ that validates the identifier after the JSON request.
Sequence_init_late_check(id, m, r) ==
    IF ~check_id(id)
    THEN [exc |-> "ValueError", self |-> None, bfile |-> None,
          gets |-> <<OEIS_URL \o <<"/","s","e","a","r","c","h","?","q","=","i","d",":">>
                              \o id \o <<"&","f","m","t","=","j","s","o","n">> >>]
    ELSE Sequence_build(id, m, r)

\* Sequence.__init__ when the JSON request receives m and the b-file
\* request receives r: the exception raised or the new object, the BFile
\* it owns, and the requests issued, in order.
Sequence_init(id, m, r) ==
    IF ~check_id(id)
    THEN [exc |-> "ValueError", self |-> None, bfile |-> None, gets |-> << >>]
    ELSE Sequence_build(id, m, r)

\* [A-Za-z]
Letters ==
    {"A", "B", "C", "D", "E", "F", "G", "H", "I", "J", "K", "L", "M", "N", "O", "P", "Q", "R", "S", "T", "U", "V", "W", "X", "Y", "Z",
     "a", "b", "c", "d", "e", "f", "g", "h", "i", "j", "k", "l", "m", "n", "o", "p", "q", "r", "s", "t", "u", "v", "w", "x", "y", "z"}

AllLetters(s, a, b) == \A i \in a..b : s[i] \in Letters

AllDigits(s, a, b) == \A i \in a..b : IsDigit(s[i])

\* re.fullmatch(r"\d{4}", value)
fullmatch_year(value) == Len(value) = 4 /\ AllDigits(value, 1, 4)

\* re.fullmatch(r"[A-Za-z]{3,9}\.? \d{1,2},? \d{4}", value): k letters,
\* dot and comma tell whether the optional characters are there, d is the
\* number of digits of the day.
fullmatch_month_day_year(value) ==
    \E k \in 3..9, dot \in 0..1, d \in 1..2, comma \in 0..1 :
        /\ Len(value) = k + dot + 1 + d + comma + 1 + 4
        /\ AllLetters(value, 1, k)
        /\ dot = 1 => value[k + 1] = "."
        /\ value[k + dot + 1] = "SP"
        /\ AllDigits(value, k + dot + 2, k + dot + 1 + d)
        /\ comma = 1 => value[k + dot + d + 2] = ","
        /\ value[k + dot + d + comma + 2] = "SP"
        /\ AllDigits(value, k + dot + d + comma + 3, Len(value))

\* re.fullmatch(r"\d{1,2} [A-Za-z]{3,9}\.? \d{4}", value)
fullmatch_day_month_year(value) ==
    \E d \in 1..2, k \in 3..9, dot \in 0..1 :
        /\ Len(value) = d + 1 + k + dot + 1 + 4
        /\ AllDigits(value, 1, d)
        /\ value[d + 1] = "SP"
        /\ AllLetters(value, d + 2, d + 1 + k)
        /\ dot = 1 => value[d + k + 2] = "."
        /\ value[d + k + dot + 2] = "SP"
        /\ AllDigits(value, d + k + dot + 3, Len(value))

\* re.fullmatch(r"\d{4}-\d{2}-\d{2}", value)
fullmatch_iso_date(value) ==
    /\ Len(value) = 10
    /\ AllDigits(value, 1, 4)
    /\ value[5] = "-"
    /\ AllDigits(value, 6, 7)
    /\ value[8] = "-"
    /\ AllDigits(value, 9, 10)

\* Sequence._is_date_token
_is_date_token(value) ==
    \/ fullmatch_year(value)
    \/ fullmatch_month_day_year(value)
    \/ fullmatch_day_month_year(value)
    \/ fullmatch_iso_date(value)

\* str.split(","): the pieces between the commas, empty ones included.
RECURSIVE split_comma_from(_, _, _)
split_comma_from(s, i, cur) ==
    IF i > Len(s) THEN <<cur>>
    ELSE IF s[i] = "," THEN <<cur>> \o split_comma_from(s, i + 1, << >>)
    ELSE split_comma_from(s, i + 1, Append(cur, s[i]))

split_comma(s) == split_comma_from(s, 1, << >>)

\* re.sub(r'^_+|_+$', '', name) on a stripped name (it ends in no line
\* break, so `$` is the end of the string): the name without its leading
\* and its trailing run of underscores.
sub_underscores(name) ==
    LET kept == {i \in 1..Len(name) : name[i] # "_"}
    IN  IF kept = {} THEN << >>
        ELSE SubSeq(name, CHOOSE i \in kept : \A j \in kept : i <= j,
                          CHOOSE i \in kept : \A j \in kept : i >= j)

\* The loop of _parse_authors that tests the chunk for a date before it
\* removes the underscores.
RECURSIVE parse_authors_loop_raw_date(_)
parse_authors_loop_raw_date(chunks) ==
    IF chunks = << >> THEN << >>
    ELSE LET name == strip(sub_underscores(strip(Head(chunks))))
             rest == parse_authors_loop_raw_date(Tail(chunks))
         IN  IF _is_date_token(strip(Head(chunks))) THEN rest
             ELSE IF name # << >> THEN <<name>> \o rest
             ELSE rest

\* The loop of _parse_authors over the chunks.
RECURSIVE parse_authors_loop(_)
parse_authors_loop(chunks) ==
    IF chunks = << >> THEN << >>
    ELSE LET name == strip(sub_underscores(strip(Head(chunks))))
             rest == parse_authors_loop(Tail(chunks))
         IN  IF _is_date_token(name) THEN rest
             ELSE IF name # << >> THEN <<name>> \o rest
             ELSE rest

\* Sequence._parse_authors; author_raw is a JSON value: a list of str
\* (its items), a str (its text), or something else.
_parse_authors(author_raw) ==
    IF author_raw.type = "list" THEN parse_authors_loop(author_raw.items)
    ELSE IF author_raw.type = "str" THEN parse_authors_loop(split_comma(author_raw.text))
    ELSE << >>

\* The author field as the JSON record may hold it: pieces of text between
\* commas in a str, or the elements of a list.
MaxChunks == 2

AuthorChunks == {
    <<"_", "T", "o", "m", "SP", "V", "_">>,
    <<"SP", "1", "9", "6", "4">>,
    <<"_", "1", "9", "6", "4", "_">>,
    <<"_", "SP", "1", "9", "6", "4", "SP", "_">>,
    <<"A", "p", "r", "SP", "2", "8", "SP", "2", "0", "1", "2">>,
    <<"M", "a", "y", ".", "SP", "5", ",", "SP", "2", "0", "1", "2">>,
    <<"2", "8", "SP", "S", "e", "p", "t", ".", "SP", "2", "0", "1", "2">>,
    <<"2", "0", "1", "2", "-", "0", "4", "-", "2", "8">>,
    << >>,
    <<"_", "SP", "_">>,
    <<"_", "SP", "_", "A", "n", "n">>,
    <<"1", "2", "3", "4", "5">>,
    <<"A", "p", "SP", "2", "SP", "2", "0", "1", "2">>,
    <<"S", "e", "p", "t", "e", "m", "b", "e", "r", "s", "SP", "1", "SP", "2", "0", "0", "0">>,
    <<"A", "p", "r", "SP", "SP", "2", "SP", "2", "0", "1", "2">>,
    <<"A", "p", "r", "SP", "2", "SP", "1", "2">>
}

RECURSIVE join_comma(_)
join_comma(parts) ==
    IF Len(parts) = 1 THEN Head(parts)
    ELSE Head(parts) \o <<",">> \o join_comma(Tail(parts))

AuthorRaws ==
    { [type |-> "other", text |-> << >>, items |-> << >>] }
    \cup { [type |-> "list", text |-> << >>, items |-> cs] :
             cs \in UNION { [1..k -> AuthorChunks] : k \in 0..MaxChunks } }
    \cup { [type |-> "str", text |-> join_comma(cs), items |-> << >>] :
             cs \in UNION { [1..k -> AuthorChunks] : k \in 1..MaxChunks } }

\* The xref field as the JSON record may hold it: absent, a str or a list
\* of str, made of up to MaxFrags fragments.
MaxFrags == 3

XrefFrags == {
    <<"A", "0", "0", "0", "0", "4", "5">>,
    <<"A", "0", "0", "0", "2", "0", "4">>,
    <<"A", "1", "2", "3", "4", "5">>,
    <<"SP">>,
    <<"A", "0", "0", "0">>,
    <<"0", "4", "5">>,
    <<"9">>,
    <<"C", "f", ".">>
}

RECURSIVE concat(_)
concat(parts) == IF parts = << >> THEN << >> ELSE Head(parts) \o concat(Tail(parts))

XrefRaws ==
    { [type |-> "absent", text |-> << >>, items |-> << >>] }
    \cup { [type |-> "list", text |-> << >>, items |-> fs] :
             fs \in UNION { [1..k -> XrefFrags] : k \in 0..MaxFrags } }
    \cup { [type |-> "str", text |-> concat(fs), items |-> << >>] :
             fs \in UNION { [1..k -> XrefFrags] : k \in 0..MaxFrags } }

\* The names an instance of Sequence answers to: the attributes __init__
\* sets and the methods the class defines.  The class has no __getattr__.
Sequence_attributes ==
    {"json", "id", "data", "name", "comment", "reference", "formula", "example",
     "maple", "mathematica", "program", "xref", "keyword", "offset", "author",
     "references", "revision", "m_id", "n_id", "time", "created", "link", "bfile",
     "__init__", "get_bfile_info", "get_xref_ids", "get_data_values",
     "_parse_authors", "_is_date_token", "_parse_offset", "_parse_keywords"}

\* seq.<name>: the attribute lookup that precedes a method call.
Sequence_getattr(name) ==
    IF name \in Sequence_attributes THEN "ok" ELSE "AttributeError"

RECURSIVE seq_min(_)
seq_min(xs) ==
    IF Len(xs) = 1 THEN xs[1]
    ELSE LET m == seq_min(Tail(xs)) IN IF xs[1] <= m THEN xs[1] ELSE m

RECURSIVE seq_max(_)
seq_max(xs) ==
    IF Len(xs) = 1 THEN xs[1]
    ELSE LET m == seq_max(Tail(xs)) IN IF xs[1] >= m THEN xs[1] ELSE m

\* get_bfile_info that leaves filename and url out when there is no data.
get_bfile_info_bare(bfile) ==
    LET data == get_bfile_data(bfile)
    IN  IF IsNone(data)
        THEN [available |-> FALSE, filename |-> None, url |-> None, length |-> 0,
              first |-> None, last |-> None, min |-> None, max |-> None]
        ELSE LET d == Val(data)
             IN  [available |-> TRUE,
                  filename  |-> Some(get_filename(bfile)),
                  url       |-> Some(get_url(bfile)),
                  length    |-> Len(d),
                  first |-> IF d # << >> THEN Some(d[1]) ELSE None,
                  last  |-> IF d # << >> THEN Some(d[Len(d)]) ELSE None,
                  min   |-> IF d # << >> THEN Some(seq_min(d)) ELSE None,
                  max   |-> IF d # << >> THEN Some(seq_max(d)) ELSE None]

\* get_bfile_info with `if not data` in place of `if data is None`.
get_bfile_info_falsy(bfile) ==
    LET data == get_bfile_data(bfile)
    IN  IF IsNone(data) \/ Val(data) = << >>
        THEN [available |-> FALSE,
              filename  |-> Some(get_filename(bfile)),
              url       |-> Some(get_url(bfile)),
              length    |-> 0,
              first |-> None, last |-> None, min |-> None, max |-> None]
        ELSE LET d == Val(data)
             IN  [available |-> TRUE,
                  filename  |-> Some(get_filename(bfile)),
                  url       |-> Some(get_url(bfile)),
                  length    |-> Len(d),
                  first |-> Some(d[1]),
                  last  |-> Some(d[Len(d)]),
                  min   |-> Some(seq_min(d)),
                  max   |-> Some(seq_max(d))]

\* get_bfile_info that takes the ends of the list for its extremes.
get_bfile_info_ends(bfile) ==
    LET data == get_bfile_data(bfile)
    IN  IF IsNone(data)
        THEN [available |-> FALSE,
              filename  |-> Some(get_filename(bfile)),
              url       |-> Some(get_url(bfile)),
              length    |-> 0,
              first |-> None, last |-> None, min |-> None, max |-> None]
        ELSE LET d == Val(data)
             IN  [available |-> TRUE,
                  filename  |-> Some(get_filename(bfile)),
                  url       |-> Some(get_url(bfile)),
                  length    |-> Len(d),
                  first |-> IF d # << >> THEN Some(d[1]) ELSE None,
                  last  |-> IF d # << >> THEN Some(d[Len(d)]) ELSE None,
                  min   |-> IF d # << >> THEN Some(d[1]) ELSE None,
                  max   |-> IF d # << >> THEN Some(d[Len(d)]) ELSE None]

\* Sequence.get_bfile_info; bfile is the BFile the Sequence owns (an
\* object without __bool__ or __len__, so always true).
get_bfile_info(bfile) ==
    LET data == get_bfile_data(bfile)
    IN  IF IsNone(data)
        THEN [available |-> FALSE,
              filename  |-> Some(get_filename(bfile)),
              url       |-> Some(get_url(bfile)),
              length    |-> 0,
              first |-> None, last |-> None, min |-> None, max |-> None]
        ELSE LET d == Val(data)
             IN  [available |-> TRUE,
                  filename  |-> Some(get_filename(bfile)),
                  url       |-> Some(get_url(bfile)),
                  length    |-> Len(d),
                  first |-> IF d # << >> THEN Some(d[1]) ELSE None,
                  last  |-> IF d # << >> THEN Some(d[Len(d)]) ELSE None,
                  min   |-> IF d # << >> THEN Some(seq_min(d)) ELSE None,
                  max   |-> IF d # << >> THEN Some(seq_max(d)) ELSE None]

\* re.findall(r"A\d{6}", text): the matches from position i on, left to
\* right, each search resuming after the previous match.
RECURSIVE findall_ids(_, _)
findall_ids(text, i) ==
    IF i > Len(text) THEN << >>
    ELSE IF /\ i + 6 <= Len(text)
            /\ text[i] = "A"
            /\ \A k \in 1..6 : IsDigit(text[i + k])
         THEN <<SubSeq(text, i, i + 6)>> \o findall_ids(text, i + 7)
    ELSE findall_ids(text, i + 1)

\* list(dict.fromkeys(ids)): the first occurrence of every element, in order.
RECURSIVE unique_in_order(_, _)
unique_in_order(ids, seen) ==
    IF ids = << >> THEN << >>
    ELSE IF Head(ids) \in seen THEN unique_in_order(Tail(ids), seen)
    ELSE <<Head(ids)>> \o unique_in_order(Tail(ids), seen \cup {Head(ids)})

\* get_xref_ids without the removal of the duplicates.
get_xref_ids_all(self) == findall_ids(self.xref, 1)

get_xref_ids(self) == unique_in_order(findall_ids(self.xref, 1), {})

\* The end (exclusive) of the run of digits that starts at position i.
RECURSIVE digits_end(_, _)
digits_end(text, i) ==
    IF i <= Len(text) /\ IsDigit(text[i]) THEN digits_end(text, i + 1) ELSE i

\* re.findall(r"[-+]?\d+", text) from position i on.
RECURSIVE findall_ints(_, _)
findall_ints(text, i) ==
    IF i > Len(text) THEN << >>
    ELSE IF text[i] \in {"-", "+"} /\ digits_end(text, i + 1) > i + 1
         THEN <<SubSeq(text, i, digits_end(text, i + 1) - 1)>>
              \o findall_ints(text, digits_end(text, i + 1))
    ELSE IF digits_end(text, i) > i
         THEN <<SubSeq(text, i, digits_end(text, i) - 1)>>
              \o findall_ints(text, digits_end(text, i))
    ELSE findall_ints(text, i + 1)

\* The loop of get_data_values: the tokens int() accepts, in order.
RECURSIVE int_each(_)
int_each(tokens) ==
    IF tokens = << >> THEN << >>
    ELSE (IF int(Head(tokens)).exc = "ok" THEN int(Head(tokens)).val ELSE << >>)
         \o int_each(Tail(tokens))

get_data_values(self) ==
    IF self.data.type = "list" THEN int_each(self.data.v)
    ELSE IF self.data.type = "str" THEN int_each(findall_ints(self.data.v, 1))
    ELSE << >>

----------------------------------------------------------------------------
(* Identifier validation on its own: every string up to MaxIdLen *)

NoObjects ==
    /\ bf = None
    /\ seq = None
    /\ net = << >>
    /\ meta = None
    /\ resp = None
    /\ plot = None

InitCheckId ==
    /\ arg = None
    /\ oeis_id \in Ids
    /\ pc = "start"
    /\ ret = [op |-> "none", exc |-> "ok", val |-> None]
    /\ NoObjects

CallCheckId ==
    /\ pc = "start"
    /\ pc' = "done"
    /\ ret' = [op |-> "check_id", exc |-> "ok", val |-> Some(check_id(oeis_id))]
    /\ UNCHANGED <<arg, oeis_id, bf, seq, net, meta, resp, plot>>

NextCheckId == CallCheckId

SpecCheckId == InitCheckId /\ [][NextCheckId]_vars

----------------------------------------------------------------------------
(* A client of the library: it picks an identifier and then either calls   *)
(* a helper of utils.py, or builds a BFile and uses it, or builds a         *)
(* Sequence and queries it.                                                 *)

Init ==
    /\ arg = None
    /\ oeis_id \in NearIds
    /\ pc = "start"
    /\ ret = [op |-> "none", exc |-> "ok", val |-> None]
    /\ NoObjects

CallOeisBfile ==
    /\ pc = "start"
    /\ pc' = "done"
    /\ ret' = [op |-> "oeis_bfile", exc |-> oeis_bfile(oeis_id).exc,
               val |-> oeis_bfile(oeis_id).val]
    /\ UNCHANGED <<arg, oeis_id, bf, seq, net, meta, resp, plot>>

CallOeisUrl ==
    \E fmt \in Fmts :
        /\ pc = "start"
        /\ pc' = "done"
        /\ ret' = [op |-> "oeis_url", fmt |-> fmt, exc |-> oeis_url(oeis_id, fmt).exc,
                   val |-> oeis_url(oeis_id, fmt).val]
        /\ UNCHANGED <<arg, oeis_id, bf, seq, net, meta, resp, plot>>

\* oeis_tools.oeis_url(oeis_id, fmt): the function of the package root
CallRootOeisUrl ==
    \E fmt \in Fmts :
        /\ pc = "start"
        /\ pc' = "done"
        /\ ret' = [op |-> "oeis_tools.oeis_url", fmt |-> fmt,
                   exc |-> root_oeis_url(oeis_id, fmt).exc,
                   val |-> root_oeis_url(oeis_id, fmt).val]
        /\ UNCHANGED <<arg, oeis_id, bf, seq, net, meta, resp, plot>>

\* oeis_keyword_description(keyword_tag)
CallOeisKeywordDescription ==
    /\ pc = "start"
    /\ \E tag \in KeywordTags :
        /\ pc' = "done"
        /\ ret' = [op |-> "oeis_keyword_description", tag |-> tag, exc |-> "ok",
                   val |-> oeis_keyword_description(tag)]
        /\ UNCHANGED <<arg, oeis_id, bf, seq, net, meta, resp, plot>>

\* bfile = BFile(oeis_id)
ConstructBFile ==
    /\ pc = "start"
    /\ \E r \in BFileResponses : \E res \in {BFile_init(oeis_id, r)} :
        /\ pc' = IF res.exc # "ok" THEN "raised" ELSE "bfile_ret"
        /\ ret' = [op |-> "BFile", exc |-> res.exc, val |-> None]
        /\ bf' = res.val
        /\ net' = net \o res.gets
        /\ resp' = IF res.gets = << >> THEN None ELSE Some(r)
        /\ UNCHANGED <<arg, oeis_id, seq, meta, plot>>

\* bfile.fetch_bfile_data(), called by the client
CallFetchBFileData ==
    /\ pc = "bfile"
    /\ Len(net) < MaxRequests
    /\ \E r \in BFileResponses : \E f \in {fetch_bfile_data(Val(bf), r)} :
        /\ pc' = "bfile_ret"
        /\ bf' = Some(f.self)
        /\ net' = Append(net, Val(bf).url)
        /\ resp' = Some(r)
        /\ ret' = [op |-> "fetch_bfile_data", exc |-> f.exc, val |-> f.val]
        /\ UNCHANGED <<arg, oeis_id, seq, meta, plot>>

CallGetFilename ==
    /\ pc = "bfile"
    /\ pc' = "bfile_ret"
    /\ ret' = [op |-> "get_filename", exc |-> "ok", val |-> Some(get_filename(Val(bf)))]
    /\ UNCHANGED <<arg, oeis_id, bf, seq, net, meta, resp, plot>>

CallGetUrl ==
    /\ pc = "bfile"
    /\ pc' = "bfile_ret"
    /\ ret' = [op |-> "get_url", exc |-> "ok", val |-> Some(get_url(Val(bf)))]
    /\ UNCHANGED <<arg, oeis_id, bf, seq, net, meta, resp, plot>>

CallGetBFileData ==
    /\ pc = "bfile"
    /\ pc' = "bfile_ret"
    /\ ret' = [op |-> "get_bfile_data", exc |-> "ok", val |-> get_bfile_data(Val(bf))]
    /\ UNCHANGED <<arg, oeis_id, bf, seq, net, meta, resp, plot>>

CallGetBFileIndices ==
    /\ pc = "bfile"
    /\ pc' = "bfile_ret"
    /\ ret' = [op |-> "get_bfile_indices", exc |-> "ok", val |-> get_bfile_indices(Val(bf))]
    /\ UNCHANGED <<arg, oeis_id, bf, seq, net, meta, resp, plot>>

CallPlotData ==
    /\ pc = "bfile"
    /\ \E n \in NArgs, mpl \in BOOLEAN : \E res \in {plot_data(Val(bf), n, mpl)} :
        /\ pc' = "bfile_ret"
        /\ ret' = [op |-> "plot_data", n |-> n, mpl |-> mpl,
                   exc |-> res.exc, msg |-> res.msg, val |-> None]
        /\ plot' = res.plot
        /\ UNCHANGED <<arg, oeis_id, bf, seq, net, meta, resp>>

\* seq = Sequence(oeis_id)
ConstructSequence ==
    /\ pc = "start"
    /\ \E m \in MetaResponses, r \in BFileResponses :
       \E res \in {Sequence_init(oeis_id, m, r)} :
        /\ pc' = IF res.exc # "ok" THEN "raised" ELSE "seq_ret"
        /\ ret' = [op |-> "Sequence", exc |-> res.exc, val |-> None]
        /\ seq' = res.self
        /\ bf' = res.bfile
        /\ net' = net \o res.gets
        /\ meta' = IF Len(res.gets) >= 1 THEN Some(m) ELSE None
        /\ resp' = IF Len(res.gets) >= 2 THEN Some(r) ELSE None
        /\ UNCHANGED <<arg, oeis_id, plot>>

CallGetBFileInfo ==
    /\ pc = "seq"
    /\ pc' = "seq_ret"
    /\ ret' = [op |-> "get_bfile_info", exc |-> "ok", val |-> Some(get_bfile_info(Val(bf)))]
    /\ UNCHANGED <<arg, oeis_id, bf, seq, net, meta, resp, plot>>

CallGetXrefIds ==
    /\ pc = "seq"
    /\ pc' = "seq_ret"
    /\ ret' = [op |-> "get_xref_ids", exc |-> "ok", val |-> Some(get_xref_ids(Val(seq)))]
    /\ UNCHANGED <<arg, oeis_id, bf, seq, net, meta, resp, plot>>

CallGetDataValues ==
    /\ pc = "seq"
    /\ pc' = "seq_ret"
    /\ ret' = [op |-> "get_data_values", exc |-> "ok", val |-> Some(get_data_values(Val(seq)))]
    /\ UNCHANGED <<arg, oeis_id, bf, seq, net, meta, resp, plot>>

\* seq.get_keyword_description(tag): the class defines no such method and
\* __init__ sets no such attribute, so the lookup raises before any call.
CallGetKeywordDescription ==
    /\ pc = "seq"
    /\ Sequence_getattr("get_keyword_description") # "ok"
    /\ \E tag \in KeywordTags :
        /\ pc' = "seq_ret"
        /\ ret' = [op |-> "get_keyword_description", tag |-> tag,
                   exc |-> Sequence_getattr("get_keyword_description"), val |-> None]
        /\ UNCHANGED <<arg, oeis_id, bf, seq, net, meta, resp, plot>>

\* The client takes the outcome of the call and goes on with the object;
\* the responses the call consumed are gone.
Continue ==
    /\ pc \in {"bfile_ret", "seq_ret"}
    /\ pc' = IF pc = "bfile_ret" THEN "bfile" ELSE "seq"
    /\ ret' = [op |-> "none", exc |-> "ok", val |-> None]
    /\ plot' = None
    /\ meta' = None
    /\ resp' = None
    /\ UNCHANGED <<arg, oeis_id, bf, seq, net>>

Next ==
    \/ CallCheckId
    \/ CallOeisBfile
    \/ CallOeisUrl
    \/ CallRootOeisUrl
    \/ ConstructBFile
    \/ CallFetchBFileData
    \/ CallGetFilename
    \/ CallGetUrl
    \/ CallGetBFileData
    \/ CallGetBFileIndices
    \/ CallPlotData
    \/ ConstructSequence
    \/ CallGetBFileInfo
    \/ CallGetXrefIds
    \/ CallGetDataValues
    \/ CallOeisKeywordDescription
    \/ CallGetKeywordDescription
    \/ Continue

Spec == Init /\ [][Next]_vars

----------------------------------------------------------------------------
(* The URL helpers of utils.py on every identifier check_id accepts, over  *)
(* two digits: 'A', six digits, and possibly the final line feed that `$`  *)
(* lets through.                                                            *)

UrlIds ==
    { <<"A">> \o d \o t : d \in [1..6 -> {"0", "7"}], t \in {<< >>, <<"LF">>} }

InitUrl ==
    /\ arg = None
    /\ oeis_id \in UrlIds
    /\ pc = "start"
    /\ ret = [op |-> "none", exc |-> "ok", val |-> None]
    /\ NoObjects

NextUrl ==
    \/ CallOeisBfile
    \/ CallOeisUrl
    \/ CallRootOeisUrl

SpecUrl == InitUrl /\ [][NextUrl]_vars

----------------------------------------------------------------------------
(* The field parsers of sequence.py on their own: the client passes a      *)
(* field of a JSON record to the parser of that field.                      *)

FieldArgs ==
    { [field |-> "author", raw |-> a] : a \in AuthorRaws }
    \cup { [field |-> "xref", raw |-> x] : x \in XrefRaws }

InitFields ==
    /\ arg \in { Some(a) : a \in FieldArgs }
    /\ oeis_id = None
    /\ pc = "start"
    /\ ret = [op |-> "none", exc |-> "ok", val |-> None]
    /\ NoObjects

\* Sequence._parse_authors(author_raw)
CallParseAuthors ==
    /\ pc = "start"
    /\ Val(arg).field = "author"
    /\ pc' = "done"
    /\ ret' = [op |-> "_parse_authors", exc |-> "ok",
               val |-> Some(_parse_authors(Val(arg).raw))]
    /\ UNCHANGED <<arg, oeis_id, bf, seq, net, meta, resp, plot>>

\* self.xref as __init__ sets it from the xref field, then
\* self.get_xref_ids()
CallFieldXrefIds ==
    /\ pc = "start"
    /\ Val(arg).field = "xref"
    /\ \E self \in {[xref |-> text_group(IF Val(arg).raw.type = "absent" THEN None
                                         ELSE IF Val(arg).raw.type = "list"
                                         THEN Some([type |-> "list", v |-> Val(arg).raw.items])
                                         ELSE Some([type |-> "str", v |-> Val(arg).raw.text]))]} :
        /\ pc' = "done"
        /\ ret' = [op |-> "get_xref_ids", exc |-> "ok", val |-> Some(get_xref_ids(self))]
    /\ UNCHANGED <<arg, oeis_id, bf, seq, net, meta, resp, plot>>

NextFields ==
    \/ CallParseAuthors
    \/ CallFieldXrefIds

SpecFields == InitFields /\ [][NextFields]_vars

----------------------------------------------------------------------------
(* The log-magnitude transform of plot_data, applied to one integer *)

InitLog ==
    /\ arg \in { Some(v) : v \in IntValues }
    /\ oeis_id = None
    /\ pc = "start"
    /\ ret = [op |-> "none", exc |-> "ok", val |-> None]
    /\ NoObjects

\* The element of y_values for one plotted value
CallYValue ==
    /\ pc = "start"
    /\ pc' = "done"
    /\ ret' = [op |-> "y_value", exc |-> "ok", val |-> Some(y_value(Val(arg)))]
    /\ UNCHANGED <<arg, oeis_id, bf, seq, net, meta, resp, plot>>

NextLog ==
    \/ CallYValue

SpecLog == InitLog /\ [][NextLog]_vars

----------------------------------------------------------------------------
(* The claims *)

Refetched == pc \in {"bfile", "bfile_ret"} /\ Len(net) > 1

AsciiDigits == {"0", "1", "2", "3", "4", "5", "6", "7", "8", "9"}

C1_APlusSixDigits(s) ==
    /\ Len(s) = 7
    /\ s[1] = "A"
    /\ \A i \in 2..7 : s[i] \in AsciiDigits

\* C1: check_id(s) is True exactly when s is 'A' followed by exactly six
\* decimal digits and nothing else, a trailing line break included.
C1_CheckIdExact ==
    ret.op = "check_id" => (Val(ret.val) <=> C1_APlusSixDigits(oeis_id))

\* The lines of a b-file as the claims describe them.
ListingBlank(l) == \A i \in 1..Len(l) : IsSpace(l[i])

ListingComment(l) ==
    \E i \in 1..Len(l) : l[i] = "#" /\ \A j \in 1..(i - 1) : IsSpace(l[j])

ListingDataLine(l) == ~ListingBlank(l) /\ ~ListingComment(l)

SignedInteger(tok) ==
    LET ds == IF tok # << >> /\ tok[1] \in {"+", "-"} THEN Tail(tok) ELSE tok
    IN  ds # << >> /\ \A i \in 1..Len(ds) : ds[i] \in AsciiDigits

RECURSIVE DecimalValue(_)
DecimalValue(ds) ==
    IF ds = << >> THEN 0
    ELSE 10 * DecimalValue(SubSeq(ds, 1, Len(ds) - 1)) + DigitVal(ds[Len(ds)])

IntegerValue(tok) ==
    IF tok[1] = "-" THEN 0 - DecimalValue(Tail(tok))
    ELSE IF tok[1] = "+" THEN DecimalValue(Tail(tok))
    ELSE DecimalValue(tok)

ListingWellFormedLine(l) ==
    /\ Len(split(l)) >= 2
    /\ SignedInteger(split(l)[1])
    /\ SignedInteger(split(l)[2])

ListingDataLines(text) == SelectSeq(splitlines(text), ListingDataLine)

ListingWellFormed(text) ==
    \A i \in 1..Len(ListingDataLines(text)) : ListingWellFormedLine(ListingDataLines(text)[i])

ListingColumn(text, k) ==
    [i \in 1..Len(ListingDataLines(text)) |-> IntegerValue(split(ListingDataLines(text)[i])[k])]

\* The BFile holds the listing its constructor built: no refetch since.
AsConstructed == bf # None /\ ~Refetched /\ resp # None

\* C2: after a construction whose fetch succeeds with a body of blank
\* lines, comment lines and lines starting with two signed integers, data
\* is the second column and indices the first, in line order, one entry
\* per data line.
C2_ListingInLineOrder ==
    (AsConstructed /\ Val(resp).kind = "ok" /\ ListingWellFormed(Val(resp).text))
    => /\ Val(bf).data = Some(ListingColumn(Val(resp).text, 2))
       /\ Val(bf).indices = Some(ListingColumn(Val(resp).text, 1))

C2_Witness ==
    /\ AsConstructed
    /\ Val(resp).kind = "ok"
    /\ ListingWellFormed(Val(resp).text)
    /\ Len(splitlines(Val(resp).text)) = 2
    /\ Val(bf).indices = Some(<<0, 0 - 2>>)
    /\ Val(bf).data = Some(<<5, 10>>)

\* C3: if any data line has fewer than two tokens or a non-integer first
\* or second token, data and indices are both None after construction,
\* whatever well-formed lines precede or follow it.
C3_AllOrNothing ==
    (AsConstructed /\ Val(resp).kind = "ok" /\ ~ListingWellFormed(Val(resp).text))
    => /\ Val(bf).data = None
       /\ Val(bf).indices = None

C3_Witness ==
    /\ AsConstructed
    /\ Val(resp).kind = "ok"
    /\ Len(ListingDataLines(Val(resp).text)) = 2
    /\ ListingWellFormedLine(ListingDataLines(Val(resp).text)[1])
    /\ ~ListingWellFormedLine(ListingDataLines(Val(resp).text)[2])
    /\ Val(bf).data = None
    /\ Val(bf).indices = None

\* C4: in every state reachable by public BFile operations, indices and
\* data have the same length whenever both are present.
C4_EqualLengths ==
    (bf # None /\ Val(bf).indices # None /\ Val(bf).data # None)
    => Len(Val(Val(bf).indices)) = Len(Val(Val(bf).data))

\* C5: once a BFile is constructed, no public operation on it changes its
\* data or its indices.
C5_ListingImmutable ==
    [][bf # None => /\ (Val(bf).data)' = Val(bf).data
                    /\ (Val(bf).indices)' = Val(bf).indices]_vars

FailedResponse(r) == r.kind # "ok" \/ ~ListingWellFormed(r.text)

\* C6: a transport or parse failure of the b-file fetch is never raised:
\* the constructor returns an object whose data and indices are None, a
\* Sequence whose metadata arrived is still built around it, and a later
\* fetch_bfile_data that fails returns None.
C6_BFileFailureSwallowed ==
    (resp # None /\ FailedResponse(Val(resp)))
    => /\ pc \in {"bfile", "bfile_ret", "seq", "seq_ret"}
       /\ bf # None
       /\ pc \in {"seq", "seq_ret"} => seq # None
       /\ ~Refetched => (Val(bf).data = None /\ Val(bf).indices = None)
       /\ ret.op \in {"BFile", "Sequence", "fetch_bfile_data"} => (ret.exc = "ok" /\ ret.val = None)

C6_Witness ==
    /\ pc = "seq_ret"
    /\ ret.op = "Sequence"
    /\ seq # None
    /\ resp # None
    /\ Val(resp).kind = "status"
    /\ Val(bf).data = None
    /\ Val(bf).indices = None

\* C7: when the JSON fetch fails with a transport or HTTP status error,
\* that error reaches the caller, no Sequence exists and no b-file request
\* is made.
C7_MetadataFailurePropagates ==
    (meta # None /\ Val(meta).kind \in {"error", "status"})
    => /\ pc = "raised"
       /\ ret.op = "Sequence"
       /\ ret.exc = (IF Val(meta).kind = "error" THEN "RequestException" ELSE "HTTPError")
       /\ seq = None
       /\ bf = None
       /\ resp = None
       /\ net = <<Val(oeis_url(oeis_id, "json").val)>>

C7_Witness ==
    /\ meta # None
    /\ Val(meta).kind = "status"
    /\ pc = "raised"
    /\ ret.exc = "HTTPError"

\* C8: Sequence(oeis_id) with an identifier check_id rejects raises
\* ValueError with no request issued and no object built.
C8_InvalidIdNoRequest ==
    (ret.op = "Sequence" /\ ~check_id(oeis_id))
    => /\ pc = "raised"
       /\ ret.exc = "ValueError"
       /\ net = << >>
       /\ meta = None
       /\ resp = None
       /\ seq = None
       /\ bf = None

C8_Witness ==
    /\ ret.op = "Sequence"
    /\ ~check_id(oeis_id)
    /\ ret.exc = "ValueError"
    /\ net = << >>

\* C9: a constructed Sequence has issued exactly the JSON request and then
\* the b-file request, and the query methods issue none.
C9_EagerOrderedFetches ==
    pc \in {"seq", "seq_ret"}
    => /\ net = <<Val(oeis_url(oeis_id, "json").val), Val(oeis_url(oeis_id, "bfile").val)>>
       /\ net[1] # net[2]
       /\ net[2] = Val(bf).url
       /\ ret.op = "Sequence" => (meta # None /\ resp # None)

C9_Witness ==
    /\ pc = "seq_ret"
    /\ ret.op \in {"get_bfile_info", "get_xref_ids", "get_data_values"}
    /\ Len(net) = 2

\* C10: oeis_bfile, oeis_url with every format selector, BFile() and
\* Sequence() fail with ValueError on an identifier check_id rejects.
C10_EveryEntryValidates ==
    (ret.op \in {"oeis_bfile", "oeis_url", "BFile", "Sequence"} /\ ~check_id(oeis_id))
    => /\ ret.exc = "ValueError"
       /\ bf = None
       /\ seq = None

C10_Witness ==
    /\ ret.op = "oeis_url"
    /\ ret.fmt = "unknown"
    /\ ~check_id(oeis_id)
    /\ ret.exc = "ValueError"

Base == <<"h","t","t","p","s",":","/","/","o","e","i","s",".","o","r","g">>

SearchUrl(X, f) == Base \o <<"/","s","e","a","r","c","h","?","q","=","i","d",":">> \o X
                        \o <<"&","f","m","t","=">> \o f

\* The six characters that follow the 'A' of an identifier.
SixDigits(X) == SubSeq(X, 2, 7)

C11_Expected(X, fmt) ==
    CASE fmt = "json"  -> SearchUrl(X, <<"j","s","o","n">>)
      [] fmt = "text"  -> SearchUrl(X, <<"t","e","x","t">>)
      [] fmt = "bfile" -> Base \o <<"/">> \o X \o <<"/","b">> \o SixDigits(X) \o <<".","t","x","t">>
      [] fmt = "graph" -> Base \o <<"/">> \o X \o <<"/","g","r","a","p","h","?","p","n","g","=","1">>
      [] OTHER         -> Base \o <<"/">> \o X

\* C11: for an identifier X of 'A' and six digits, utils.oeis_url returns
\* base/X for the absent format, the search URLs for 'json' and 'text',
\* base/X/b<six digits>.txt for 'bfile', base/X/graph?png=1 for 'graph',
\* and the URL of the absent format, never an error, for any other
\* selector.
C11_UrlForms ==
    (ret.op = "oeis_url" /\ C1_APlusSixDigits(oeis_id))
    => /\ ret.exc = "ok"
       /\ ret.val = Some(C11_Expected(oeis_id, ret.fmt))

C11_Witness ==
    /\ ret.op = "oeis_url"
    /\ ret.fmt = "unknown"
    /\ oeis_id = <<"A","0","7","7","0","0","7">>
    /\ ret.val = Some(Base \o <<"/","A","0","7","7","0","0","7">>)

\* The part of a URL after its last '/'.
RECURSIVE LastSegment(_)
LastSegment(url) ==
    IF \A i \in 1..Len(url) : url[i] # "/" THEN url
    ELSE LastSegment(Tail(url))

\* A filename without its leading 'b' and its trailing '.txt'.
StripName(name) == SubSeq(name, 2, Len(name) - 4)

\* C12: for every identifier X check_id accepts, oeis_bfile(X) is 'b', the
\* six digits of X and '.txt'; the last path segment of
\* oeis_url(X, 'bfile') is that filename, and without its 'b' and '.txt'
\* it is the six-digit suffix of X.
C12_RoundTrip ==
    /\ (ret.op = "oeis_bfile" /\ check_id(oeis_id))
       => ret.val = Some(<<"b">> \o SixDigits(oeis_id) \o <<".","t","x","t">>)
    /\ (ret.op = "oeis_url" /\ ret.fmt = "bfile" /\ check_id(oeis_id))
       => /\ ret.exc = "ok"
          /\ LastSegment(Val(ret.val)) = Val(oeis_bfile(oeis_id).val)
          /\ StripName(LastSegment(Val(ret.val))) = SixDigits(oeis_id)

\* The summary get_bfile_info has just returned.
InfoReturned == pc = "seq_ret" /\ ret.op = "get_bfile_info"

InfoStatsAbsent(info) ==
    /\ info.available = FALSE
    /\ info.length = 0
    /\ info.first = None
    /\ info.last = None
    /\ info.min = None
    /\ info.max = None

\* C13 as stated: with the listing unavailable every field of the summary
\* is None, 0 or false, filename and URL included.
C13_AllFieldsNull ==
    (InfoReturned /\ Val(bf).data = None)
    => /\ InfoStatsAbsent(Val(ret.val))
       /\ Val(ret.val).filename = None
       /\ Val(ret.val).url = None

\* C13 amended: with the listing unavailable the summary has availability
\* false, count 0 and first, last, minimum and maximum None, while
\* filename and URL are not None: they are the name and the URL of the
\* attached BFile, the URL being the one its request went to.
C13_StatsNullNameKept ==
    (InfoReturned /\ Val(bf).data = None)
    => /\ InfoStatsAbsent(Val(ret.val))
       /\ Val(ret.val).filename # None
       /\ Val(ret.val).url # None
       /\ Val(Val(ret.val).filename) = Val(bf).filename
       /\ Val(Val(ret.val).url) = net[2]

C13_Witness ==
    /\ InfoReturned
    /\ Val(bf).data = None
    /\ Val(ret.val).available = FALSE
    /\ Val(ret.val).filename = Some(<<"b","7","7","7","7","7","7",".","t","x","t">>)

\* v is the least (greatest, with sign = -1) element of the list d.
IsExtreme(v, d, sign) ==
    /\ \E i \in 1..Len(d) : d[i] = v
    /\ \A i \in 1..Len(d) : sign * v >= sign * d[i]

\* C14: the summary always reports the attached BFile's get_filename()
\* and get_url(); without data the other fields are False, 0 and None;
\* with a non-empty list, length is the number of values, first and last
\* its ends, min and max its least and greatest values.
C14_InfoMatchesBFile ==
    InfoReturned
    => LET info == Val(ret.val)
           data == Val(bf).data
       IN  /\ info.filename = Some(get_filename(Val(bf)))
           /\ info.url = Some(get_url(Val(bf)))
           /\ data = None => InfoStatsAbsent(info)
           /\ (data # None /\ Val(data) # << >>)
              => /\ info.available = TRUE
                 /\ info.length = Len(Val(data))
                 /\ info.first = Some(Val(data)[1])
                 /\ info.last = Some(Val(data)[Len(Val(data))])
                 /\ info.min # None /\ IsExtreme(Val(info.min), Val(data), 0 - 1)
                 /\ info.max # None /\ IsExtreme(Val(info.max), Val(data), 1)

C14_Witness ==
    /\ InfoReturned
    /\ Val(bf).data = Some(<<10, 5>>)
    /\ Val(ret.val).length = 2
    /\ Val(ret.val).first = Some(10)
    /\ Val(ret.val).min = Some(5)
    /\ Val(ret.val).max = Some(10)

\* plot_data has just returned or raised.
PlotReturned == pc = "bfile_ret" /\ ret.op = "plot_data"

\* The BFile has a non-empty list of values.
HasData == bf # None /\ Val(bf).data # None /\ Val(Val(bf).data) # << >>

NIsNone == ret.n.type = "NoneType"

NIsInt == ret.n.type = "int"

\* C15: on a BFile with non-empty data, an n that is neither None nor an
\* integer gives TypeError and a negative integer n gives ValueError,
\* whether or not matplotlib can be imported, and nothing is plotted;
\* every integer n >= 0 is accepted: the call succeeds, or fails only for
\* the missing matplotlib.
C15_NValidated ==
    (PlotReturned /\ HasData)
    => /\ (~NIsNone /\ ~NIsInt) => (ret.exc = "TypeError" /\ plot = None)
       /\ (NIsInt /\ ret.n.v < 0)
          => (ret.exc = "ValueError" /\ ret.msg = "n must be non-negative." /\ plot = None)
       /\ (NIsInt /\ ret.n.v >= 0)
          => /\ ret.exc = (IF ret.mpl THEN "ok" ELSE "ImportError")
             /\ ret.mpl => plot # None

C15_Witness ==
    /\ PlotReturned
    /\ HasData
    /\ ret.n.type = "str"
    /\ ~ret.mpl
    /\ ret.exc = "TypeError"
    /\ plot = None

\* The number of points plot_data is asked for, of a listing of k points.
PlotCount(k) == IF NIsNone \/ ret.n.v > k THEN k ELSE ret.n.v

\* The listing value behind a plotted y: y itself in linear mode, the
\* signed magnitude in log-magnitude mode.
PlottedValue(y) ==
    IF Val(plot).ylabel = "Value" THEN y ELSE y.sign * y.log10_of

\* The listing is k (index, value) pairs.
ListingPaired ==
    /\ HasData
    /\ Val(bf).indices # None
    /\ Len(Val(Val(bf).indices)) = Len(Val(Val(bf).data))

\* C16: on a listing of k (index, value) pairs, plot_data with an integer
\* n >= 0 plots exactly the first min(n, k) pairs in their order, each
\* value against its own index; with n unset it plots all k.
C16_PrefixPlotted ==
    (PlotReturned /\ ret.exc = "ok" /\ ListingPaired)
    => LET data    == Val(Val(bf).data)
           indices == Val(Val(bf).indices)
           m       == PlotCount(Len(data))
       IN  /\ Len(Val(plot).y) = m
           /\ Len(Val(plot).x) = m
           /\ \A i \in 1..m : /\ PlottedValue(Val(plot).y[i]) = data[i]
                              /\ Val(plot).x[i] = indices[i]

C16_Witness ==
    /\ PlotReturned
    /\ ret.exc = "ok"
    /\ NIsInt
    /\ ret.n.v = 1
    /\ Val(bf).indices = Some(<<0 - 2, 0>>)
    /\ Val(bf).data = Some(<<10, 5>>)
    /\ Val(plot).x = <<0 - 2>>

\* Parsed indices exist, are non-empty and as many as the values.
IndicesAligned ==
    /\ Val(bf).indices # None
    /\ Val(Val(bf).indices) # << >>
    /\ Len(Val(Val(bf).indices)) = Len(Val(Val(bf).data))

\* C17: the x values are the listing's index column, with x label 'n',
\* exactly when parsed indices exist, are non-empty and as many as the
\* values; otherwise they are the positions 0..len(y)-1, with x label
\* 'Index'.  x and y always have the same length.
C17_XAxisChoice ==
    (PlotReturned /\ ret.exc = "ok")
    => LET x == Val(plot).x
           y == Val(plot).y
       IN  /\ Len(x) = Len(y)
           /\ IndicesAligned
              => /\ Val(plot).xlabel = "n"
                 /\ \A i \in 1..Len(y) : x[i] = Val(Val(bf).indices)[i]
           /\ ~IndicesAligned
              => /\ Val(plot).xlabel = "Index"
                 /\ \A i \in 1..Len(y) : x[i] = i - 1

C17_Witness ==
    /\ PlotReturned
    /\ ret.exc = "ok"
    /\ Val(bf).indices # None
    /\ Len(Val(Val(bf).indices)) = 2
    /\ Len(Val(Val(bf).data)) = 1
    /\ Val(plot).xlabel = "Index"
    /\ Val(plot).x = <<0>>

\* The magnitude of v is beyond the floating-point maximum.
BeyondFloat(v) == v > FloatMax \/ v < 0 - FloatMax

\* What plot_data drew is the linear mode of the values vs: the values
\* themselves, the plain title, the y label 'Value'.
LinearMode(vs) ==
    /\ Val(plot).ylabel = "Value"
    /\ Val(plot).title = Val(bf).oeis_id \o <<" b-file data">>
    /\ Val(plot).y = vs

\* What plot_data drew is the log-magnitude mode of the values vs.
LogMode(vs) ==
    /\ Val(plot).ylabel = "sign(value) * log10(|value|)"
    /\ Val(plot).title = Val(bf).oeis_id \o <<" b-file data (log10 magnitude)">>
    /\ Len(Val(plot).y) = Len(vs)
    /\ \A i \in 1..Len(vs) :
          /\ Val(plot).y[i].sign = (IF vs[i] < 0 THEN 0 - 1 ELSE IF vs[i] = 0 THEN 0 ELSE 1)
          /\ Val(plot).y[i].log10_of = (IF vs[i] < 0 THEN 0 - vs[i] ELSE vs[i])

\* The values plot_data is asked to plot.
PlottedPart ==
    SubSeq(Val(Val(bf).data), 1, PlotCount(Len(Val(Val(bf).data))))

\* C18 as stated: the mode is linear if every value of the listing is
\* within the floating-point maximum, log-magnitude otherwise.
C18_ModeByListing ==
    (PlotReturned /\ ret.exc = "ok")
    => IF \E i \in 1..Len(Val(Val(bf).data)) : BeyondFloat(Val(Val(bf).data)[i])
       THEN LogMode(PlottedPart)
       ELSE LinearMode(PlottedPart)

\* C18 amended: the mode is linear, with title '<id> b-file data' and y
\* label 'Value', if every plotted value (the first n of the listing when
\* n is given) is within the floating-point maximum; otherwise every
\* plotted value is drawn as its signed log-magnitude, with the title
\* '<id> b-file data (log10 magnitude)' and the y label
\* 'sign(value) * log10(|value|)'.
C18_ModeByPlotted ==
    (PlotReturned /\ ret.exc = "ok")
    => IF \E i \in 1..Len(PlottedPart) : BeyondFloat(PlottedPart[i])
       THEN LogMode(PlottedPart)
       ELSE LinearMode(PlottedPart)

C18_Witness ==
    /\ PlotReturned
    /\ ret.exc = "ok"
    /\ NIsNone
    /\ Val(bf).data = Some(<<5, 10>>)
    /\ Val(plot).ylabel = "sign(value) * log10(|value|)"
    /\ Val(plot).y[1] = [sign |-> 1, log10_of |-> 5]

\* C19: with the listing unavailable, plot_data raises the 'no data'
\* ValueError whatever n is and whether or not matplotlib can be
\* imported, and plots nothing; the ImportError of a missing matplotlib
\* is another error, raised only when there is data and n is acceptable.
C19_NoDataError ==
    PlotReturned
    => /\ Val(bf).data = None
          => /\ ret.exc = "ValueError"
             /\ ret.msg = "No b-file data available to plot."
             /\ plot = None
       /\ ret.exc = "ImportError"
          => /\ HasData
             /\ ~ret.mpl
             /\ ret.msg # "No b-file data available to plot."
             /\ NIsNone \/ (NIsInt /\ ret.n.v >= 0)

C19_Witness ==
    /\ PlotReturned
    /\ Val(bf).data = None
    /\ ~ret.mpl
    /\ ret.n.type = "str"
    /\ ret.exc = "ValueError"
    /\ ret.msg = "No b-file data available to plot."

\* The tag as the lookup sees it: stripped and lower-cased.
NormalizedTag(tag) == lower(strip(tag.v))

\* The result the claims give for a tag: the description of the
\* normalized tag, None when it is empty or unknown (or the tag is None).
DescriptionOf(tag) ==
    IF tag.type = "NoneType" \/ NormalizedTag(tag) = << >> THEN None
    ELSE IF NormalizedTag(tag) \in DOMAIN OEIS_KEYWORD_DESCRIPTIONS
    THEN Some(OEIS_KEYWORD_DESCRIPTIONS[NormalizedTag(tag)])
    ELSE None

\* C20: Sequence.get_keyword_description(tag) exists and returns what
\* utils.oeis_keyword_description(tag) returns: the description of the
\* stripped, lower-cased tag when the mapping has it, None when that tag is
\* empty or unknown.
C20_FacadeKeywordDescription ==
    /\ ret.op = "get_keyword_description"
       => /\ ret.exc = "ok"
          /\ ret.val = oeis_keyword_description(ret.tag)
          /\ ret.val = DescriptionOf(ret.tag)
    /\ ret.op = "oeis_keyword_description"
       => /\ ret.exc = "ok"
          /\ ret.val = DescriptionOf(ret.tag)

\* s without the leading and trailing characters that are in the set cs.
Trimmed(s, cs) ==
    LET kept == {i \in 1..Len(s) : s[i] \notin cs}
    IN  IF kept = {} THEN << >>
        ELSE [i \in 1..(1 + (CHOOSE b \in kept : \A j \in kept : b >= j)
                          - (CHOOSE a \in kept : \A j \in kept : a <= j))
                |-> s[i - 1 + (CHOOSE a \in kept : \A j \in kept : a <= j)]]

\* The pieces of s between the occurrences of the character sep.
Pieces(s, sep) ==
    LET at    == {i \in 1..Len(s) : s[i] = sep}
        cut(j) == IF j = 0 THEN 0
                  ELSE IF j > Cardinality(at) THEN Len(s) + 1
                  ELSE CHOOSE i \in at : Cardinality({k \in at : k < i}) = j - 1
    IN  [j \in 1..(Cardinality(at) + 1) |-> SubSeq(s, cut(j - 1) + 1, cut(j) - 1)]

\* The author candidates of a raw author value.
Candidates(raw) ==
    IF raw.type = "list" THEN raw.items
    ELSE IF raw.type = "str" THEN Pieces(raw.text, ",")
    ELSE << >>

\* A candidate with its whitespace stripped and its leading and trailing
\* runs of underscores removed (and the whitespace they enclosed).
Cleaned(c) ==
    Trimmed(Trimmed(Trimmed(c, {"SP", "TAB", "LF", "CR"}), {"_"}), {"SP", "TAB", "LF", "CR"})

IsNumber(w, lo, hi) ==
    /\ Len(w) \in lo..hi
    /\ \A i \in 1..Len(w) : w[i] \in AsciiDigits

\* A word of 3 to 9 letters, possibly followed by a dot.
IsMonthWord(w) ==
    LET letters == IF w # << >> /\ w[Len(w)] = "." THEN SubSeq(w, 1, Len(w) - 1) ELSE w
    IN  /\ Len(letters) \in 3..9
        /\ \A i \in 1..Len(letters) : letters[i] \in Letters

\* A day number, possibly followed by a comma.
IsDayWord(w) ==
    IsNumber(IF w # << >> /\ w[Len(w)] = "," THEN SubSeq(w, 1, Len(w) - 1) ELSE w, 1, 2)

\* A date token: a bare 4-digit year, 'Month[.] Day[,] Year',
\* 'Day Month[.] Year' or 'YYYY-MM-DD'.
DateToken(c) ==
    LET words == Pieces(c, "SP")
        parts == Pieces(c, "-")
    IN  \/ IsNumber(c, 4, 4)
        \/ /\ Len(words) = 3
           /\ IsMonthWord(words[1]) /\ IsDayWord(words[2]) /\ IsNumber(words[3], 4, 4)
        \/ /\ Len(words) = 3
           /\ IsNumber(words[1], 1, 2) /\ IsMonthWord(words[2]) /\ IsNumber(words[3], 4, 4)
        \/ /\ Len(parts) = 3
           /\ IsNumber(parts[1], 4, 4) /\ IsNumber(parts[2], 2, 2) /\ IsNumber(parts[3], 2, 2)

AuthorKept(c) == Cleaned(c) # << >> /\ ~DateToken(Cleaned(c))

\* The cleaned candidates that are kept, in source order.
RECURSIVE KeptAuthors(_)
KeptAuthors(cands) ==
    IF cands = << >> THEN << >>
    ELSE (IF AuthorKept(Head(cands)) THEN <<Cleaned(Head(cands))>> ELSE << >>)
         \o KeptAuthors(Tail(cands))

\* C21: _parse_authors returns, in source order, exactly the candidates
\* (the pieces of a str between commas, the elements of a list as they
\* are) that, stripped and without their leading and trailing underscore
\* runs, are non-empty and no date token; no author returned is empty or
\* a date token.
C21_AuthorsKept ==
    ret.op = "_parse_authors"
    => LET authors == Val(ret.val)
       IN  /\ authors = KeptAuthors(Candidates(Val(arg).raw))
           /\ \A i \in 1..Len(authors) : authors[i] # << >> /\ ~DateToken(authors[i])

C21_Witness ==
    /\ ret.op = "_parse_authors"
    /\ Val(arg).raw.type = "str"
    /\ Val(arg).raw.text = <<"_","T","o","m","SP","V","_",",","_","1","9","6","4","_">>
    /\ Val(ret.val) = << <<"T","o","m","SP","V">> >>

\* The cross-reference text: the str itself, or the items of the list
\* joined by line feeds.
RECURSIVE XrefJoined(_)
XrefJoined(items) ==
    IF items = << >> THEN << >>
    ELSE IF Len(items) = 1 THEN items[1]
    ELSE items[1] \o <<"LF">> \o XrefJoined(Tail(items))

XrefText(raw) ==
    IF raw.type = "list" THEN XrefJoined(raw.items)
    ELSE IF raw.type = "str" THEN raw.text
    ELSE << >>

\* An identifier, 'A' and six digits, stands at position i of the text.
IdAt(text, i) ==
    /\ i + 6 <= Len(text)
    /\ text[i] = "A"
    /\ \A k \in 1..6 : text[i + k] \in AsciiDigits

\* The position of the first occurrence of id in the text (0: none).
FirstAt(text, id) ==
    LET at == {i \in 1..Len(text) : IdAt(text, i) /\ SubSeq(text, i, i + 6) = id}
    IN  IF at = {} THEN 0 ELSE CHOOSE i \in at : \A j \in at : i <= j

\* C22: get_xref_ids returns every identifier that occurs in the
\* newline-joined cross-reference text, each once, in the order of their
\* first occurrences, and nothing that does not occur there; it returns
\* the empty list when the xref field is absent.
C22_XrefIdsFirstSeen ==
    (ret.op = "get_xref_ids" /\ arg # None)
    => LET text == XrefText(Val(arg).raw)
           ids  == Val(ret.val)
       IN  /\ \A i \in 1..Len(text) :
                 IdAt(text, i) => \E j \in 1..Len(ids) : ids[j] = SubSeq(text, i, i + 6)
           /\ \A j \in 1..Len(ids) : FirstAt(text, ids[j]) > 0
           /\ \A j, k \in 1..Len(ids) :
                 j < k => FirstAt(text, ids[j]) < FirstAt(text, ids[k])
           /\ Val(arg).raw.type = "absent" => ids = << >>

C22_Witness ==
    /\ ret.op = "get_xref_ids"
    /\ arg # None
    /\ Val(arg).raw.type = "str"
    /\ Val(arg).raw.text = <<"A","0","0","0","2","0","4","A","0","0","0","0","4","5",
                             "A","0","0","0","2","0","4">>
    /\ Val(ret.val) = << <<"A","0","0","0","2","0","4">>, <<"A","0","0","0","0","4","5">> >>

\* Magnitudes as numbers: 2^k, m * 2^k, m + 1, and their order.
Pow2(k) == [i \in 1..(k + 1) |-> IF i = 1 THEN 1 ELSE 0]

Scaled(m, k) == IF m = << >> THEN << >> ELSE m \o [i \in 1..k |-> 0]

RECURSIVE PlusOne(_)
PlusOne(m) ==
    IF m = << >> THEN <<1>>
    ELSE IF m[Len(m)] = 0 THEN SubSeq(m, 1, Len(m) - 1) \o <<1>>
    ELSE PlusOne(SubSeq(m, 1, Len(m) - 1)) \o <<0>>

\* Of two magnitudes of one length, the one with the zero at the first
\* place where they differ is the smaller.
SameLengthLess(a, b) ==
    LET differ == {i \in 1..Len(a) : a[i] # b[i]}
    IN  /\ differ # {}
        /\ a[CHOOSE i \in differ : \A j \in differ : i <= j] = 0

Less(a, b) == Len(a) < Len(b) \/ (Len(a) = Len(b) /\ SameLengthLess(a, b))

AtMost(a, b) == ~Less(b, a)

\* The largest float: 53 one bits and 971 zero bits.
BeyondFloatMax(m) == Less(Scaled([i \in 1..53 |-> 1], 971), m)

\* C23: for a value beyond the largest float, shift is
\* max(bit_length - 53, 0), the mantissa lies in [2^52, 2^53) and
\* mantissa * 2^shift <= |value| < (mantissa + 1) * 2^shift, so what is
\* converted to a float is the mantissa, never the value; zero maps to 0
\* and the result of a non-zero value is negated exactly when the value is
\* negative.
C23_MantissaExact ==
    ret.op = "y_value"
    => LET value == Val(arg)
           y     == Val(ret.val)
           m     == y.log10_of
       IN  /\ value.bits = << >> => (y.sign = 0 /\ m = << >> /\ y.shift = 0)
           /\ value.bits # << >> => (y.sign \in {0 - 1, 1} /\ (y.sign = 0 - 1 <=> value.neg))
           /\ BeyondFloatMax(value.bits)
              => /\ y.shift = (IF Len(value.bits) - 53 > 0 THEN Len(value.bits) - 53 ELSE 0)
                 /\ AtMost(Pow2(52), m)
                 /\ Less(m, Pow2(53))
                 /\ AtMost(Scaled(m, y.shift), value.bits)
                 /\ Less(value.bits, Scaled(PlusOne(m), y.shift))
                 /\ m # value.bits

C23_Witness ==
    /\ ret.op = "y_value"
    /\ Val(arg).neg
    /\ Len(Val(arg).bits) = 1024
    /\ BeyondFloatMax(Val(arg).bits)
    /\ Val(ret.val).sign = 0 - 1
    /\ Val(ret.val).shift = 971
    /\ Val(ret.val).log10_of = [i \in 1..53 |-> 1]

\* The positions of the listing whose value is beyond the floating-point
\* maximum.
BeyondPositions ==
    {i \in 1..Len(Val(Val(bf).data)) : BeyondFloat(Val(Val(bf).data)[i])}

\* C24: a listing whose values beyond the floating-point maximum all come
\* after position n is plotted, with that n, in linear mode with the linear
\* title and label; plotted with n unset, a listing with such a value is
\* plotted in log-magnitude mode.
C24_ModeByPrefix ==
    (PlotReturned /\ ret.exc = "ok" /\ BeyondPositions # {})
    => /\ (NIsInt /\ \A i \in BeyondPositions : i > ret.n.v)
          => /\ Val(plot).ylabel = "Value"
             /\ Val(plot).title = Val(bf).oeis_id \o <<" b-file data">>
             /\ Val(plot).y = SubSeq(Val(Val(bf).data), 1, ret.n.v)
       /\ NIsNone
          => /\ Val(plot).ylabel = "sign(value) * log10(|value|)"
             /\ Val(plot).title = Val(bf).oeis_id \o <<" b-file data (log10 magnitude)">>
             /\ Len(Val(plot).y) = Len(Val(Val(bf).data))

C24_Witness ==
    /\ PlotReturned
    /\ ret.exc = "ok"
    /\ NIsInt
    /\ ret.n.v = 1
    /\ Val(bf).data = Some(<<5, 10>>)
    /\ Val(plot).ylabel = "Value"
    /\ Val(plot).y = <<5>>

\* C25: the oeis_url of the package root and the oeis_url of utils.py
\* agree on every identifier and every format selector: both raise
\* ValueError, or both return the same URL.
C25_SameUrl ==
    ret.op = "oeis_tools.oeis_url"
    => /\ ret.exc \in {"ok", "ValueError"}
       /\ ret.exc = oeis_url(oeis_id, ret.fmt).exc
       /\ ret.val = oeis_url(oeis_id, ret.fmt).val

\* The BFile holds an available listing of length zero.
EmptyListing ==
    /\ bf # None
    /\ Val(bf).data = Some(<< >>)
    /\ Val(bf).indices = Some(<< >>)

\* C26: a b-file body without data lines (empty, or blank and comment
\* lines only) gives data = [] and indices = [], not None; on such a
\* listing get_bfile_info reports available True, length 0 and first, last,
\* min and max None, and plot_data raises the 'no data' ValueError.
C26_EmptyListingAvailable ==
    /\ (AsConstructed /\ Val(resp).kind = "ok" /\ ListingDataLines(Val(resp).text) = << >>)
       => EmptyListing
    /\ (InfoReturned /\ Val(bf).data = Some(<< >>))
       => /\ Val(ret.val).available = TRUE
          /\ Val(ret.val).length = 0
          /\ Val(ret.val).first = None
          /\ Val(ret.val).last = None
          /\ Val(ret.val).min = None
          /\ Val(ret.val).max = None
    /\ (PlotReturned /\ Val(bf).data = Some(<< >>))
       => /\ ret.exc = "ValueError"
          /\ ret.msg = "No b-file data available to plot."
          /\ plot = None

C26_Witness ==
    /\ InfoReturned
    /\ EmptyListing
    /\ Val(ret.val).available = TRUE
    /\ Val(ret.val).length = 0
    /\ Val(ret.val).max = None

====
